---------------------------- MODULE Spec2Model ----------------------------
(***************************************************************************)
(* Model of the keyframe animation recorder / player of src/media.js       *)
(* (AnimationState, recordState, startPlayback, animateBubbles,            *)
(* interpolateBubblePositions, saveAnimation, loadAnimation and the        *)
(* timeline slider / duration selector handlers).                          *)
(*                                                                         *)
(* JavaScript numbers are modelled as exact rationals <<n, d>> with d > 0, *)
(* extended with the IEEE specials NaN = <<0,0>>, +Infinity = <<1,0>> and  *)
(* -Infinity = <<-1,0>>; JavaScript null is <<0,-1>>.  Rounding of binary  *)
(* floating point and the sign of zero are not modelled.                   *)
(***************************************************************************)
EXTENDS Integers, Sequences, FiniteSets, TLC

(***************************************************************************)
(* Bounds of the model.                                                    *)
(***************************************************************************)
\* the slider takes the values 0/ProgDen .. ProgDen/ProgDen
ProgDen == 2
\* number of operator actions on the recorder, the player, the slider and
\* the files in one behaviour; selecting a duration and moving an idea are
\* not counted
MaxOps == 4
\* the wall clock is observed MaxClockSteps times at most
MaxClockSteps == 3
\* most frame callbacks that are pending at once
MaxPending == 2
\* most keyframes kept in AnimationState.data.keyframes
MaxKeyframes == 3
\* option values of the duration selector (ms)
DurationOptions == {5000, 10000}
\* most calls of the playlist handlers in a behaviour
MaxPlaylistOps == 3
\* most display refreshes that wait for a title at once
MaxRefreshes == 2

(***************************************************************************)
(* JavaScript number arithmetic.                                           *)
(***************************************************************************)
NaN == <<0, 0>>
PosInf == <<1, 0>>
NegInf == <<-1, 0>>
Null == <<0, -1>>

Abs(i) == IF i < 0 THEN -i ELSE i

Sign(i) == IF i < 0 THEN -1 ELSE IF i > 0 THEN 1 ELSE 0

RECURSIVE GCD(_, _)
GCD(a, b) == IF b = 0 THEN a ELSE GCD(b, a % b)

\* the rational n/d (d # 0) in lowest terms with a positive denominator
Rat(n, d) ==
  LET g == GCD(Abs(n), Abs(d))
      s == IF d < 0 THEN -1 ELSE 1
  IN  <<(s * n) \div g, (s * d) \div g>>

Num(i) == <<i, 1>>

\* ToNumber: null converts to 0
ToNumber(v) == IF v = Null THEN <<0, 1>> ELSE v

IsNaN(v) == ToNumber(v) = NaN

IsFinite(v) == ToNumber(v)[2] > 0

Neg(v) == LET a == ToNumber(v) IN <<-a[1], a[2]>>

Add(v, w) ==
  LET a == ToNumber(v)
      b == ToNumber(w)
  IN  IF a = NaN \/ b = NaN THEN NaN
      ELSE IF a[2] = 0 /\ b[2] = 0 THEN (IF a = b THEN a ELSE NaN)
      ELSE IF a[2] = 0 THEN a
      ELSE IF b[2] = 0 THEN b
      ELSE Rat(a[1] * b[2] + b[1] * a[2], a[2] * b[2])

Sub(v, w) == Add(v, Neg(w))

Mul(v, w) ==
  LET a == ToNumber(v)
      b == ToNumber(w)
  IN  IF a = NaN \/ b = NaN THEN NaN
      ELSE IF a[2] = 0 \/ b[2] = 0
        THEN (IF a[1] = 0 \/ b[1] = 0 THEN NaN ELSE <<Sign(a[1]) * Sign(b[1]), 0>>)
      ELSE Rat(a[1] * b[1], a[2] * b[2])

Div(v, w) ==
  LET a == ToNumber(v)
      b == ToNumber(w)
  IN  IF a = NaN \/ b = NaN THEN NaN
      ELSE IF a[2] = 0 /\ b[2] = 0 THEN NaN
      ELSE IF a[2] = 0 THEN <<a[1] * (IF b[1] < 0 THEN -1 ELSE 1), 0>>
      ELSE IF b[2] = 0 THEN <<0, 1>>
      ELSE IF b[1] = 0 THEN (IF a[1] = 0 THEN NaN ELSE <<Sign(a[1]), 0>>)
      ELSE Rat(a[1] * b[2], a[2] * b[1])

\* v < w ; every comparison with NaN is false
Lt(v, w) ==
  LET a == ToNumber(v)
      b == ToNumber(w)
  IN  IF a = NaN \/ b = NaN THEN FALSE
      ELSE IF a[2] = 0 /\ b[2] = 0 THEN a[1] < b[1]
      ELSE IF a[2] = 0 THEN a[1] < 0
      ELSE IF b[2] = 0 THEN b[1] > 0
      ELSE a[1] * b[2] < b[1] * a[2]

\* strict equality (===) of two numbers
StrictEq(v, w) == v = w /\ v # NaN

Le(v, w) == Lt(v, w) \/ StrictEq(ToNumber(v), ToNumber(w))

Ge(v, w) == Le(w, v)

\* Math.min(v, w): NaN if either argument is NaN
MathMin(v, w) ==
  IF IsNaN(v) \/ IsNaN(w) THEN NaN
  ELSE IF Lt(w, v) THEN ToNumber(w) ELSE ToNumber(v)

\* v || dflt for a number: 0, NaN, null (and undefined) are falsy
OrDefault(v, dflt) ==
  IF v = Null \/ v = NaN \/ v = <<0, 1>> THEN dflt ELSE v

\* JSON.stringify followed by JSON.parse of a number: NaN and the
\* infinities are written as null
JsonNumber(v) == IF v[2] = 0 THEN Null ELSE v

Progresses == {Rat(k, ProgDen) : k \in 0..ProgDen}

(***************************************************************************)
(* State.                                                                  *)
(***************************************************************************)
VARIABLES
  data,                 \* AnimationState.data
  timelineMarkers,      \* AnimationState.timelineMarkers
  playbackStartTime,    \* AnimationState.playbackStartTime
  playbackDuration,     \* AnimationState.playbackDuration
  currentPlaybackTime,  \* AnimationState.currentPlaybackTime
  ideas,                \* the live entity list (owned by external code)
  slider,               \* value of #mediaPlaybackSlider
  durationSelect,       \* value of #mediaPlaybackDuration
  now,                  \* Date.now()
  pending,              \* animate closures queued with requestAnimationFrame
  frameLeft,            \* callbacks of the running frame still to be called
  file,                 \* the document written by the last saveAnimation
  globals,              \* implicit globals created by loadAnimation
  last,                 \* the handler that ran last and the alert it raised
  nops,                 \* operator actions so far
  scenario,             \* history: Begin, moves, End, and the playback that follows
  cancelled,            \* ghost: the pending frame callbacks, counted from the head of
                        \* the queue, that were scheduled before isPlaying was last cleared
  uploadedPlaylists,    \* the uploaded playlists, each a name and its urls
  currentPlaylistIndex, \* index of the playlist in use, -1 before the first upload
  videoPlaylist,        \* urls of the playlist in use
  videoCurrentIndex,    \* index of the video in use
  videoTitles,          \* cached titles by index
  playlistContainer,    \* the items of #videoPlaylistItems
  isUpdatingPlaylistDisplay,
  refreshes,            \* display refreshes suspended at 'await fetchVideoTitle'
  isUploadingPlaylist,
  fileInput,            \* the file selected in #playlistUpload
  readers,              \* files whose FileReader has not called onload yet
  lastCall,             \* the playlist handler that ran last and its outcome
  ncalls                \* calls of playlist handlers so far

animationVars ==
  <<data, timelineMarkers, playbackStartTime, playbackDuration,
    currentPlaybackTime, ideas, slider, durationSelect, now,
    pending, frameLeft, file, globals, last, nops, scenario, cancelled>>

playlistVars ==
  <<uploadedPlaylists, currentPlaylistIndex, videoPlaylist, videoCurrentIndex, videoTitles,
    playlistContainer, isUpdatingPlaylistDisplay, refreshes, isUploadingPlaylist,
    fileInput, readers, lastCall, ncalls>>

vars == <<animationVars, playlistVars>>

\* ANIMATION_CONFIG.defaultDuration
defaultDuration == 10000

\* positions (x, y) the external code moves an idea to
Positions == {<<10, 20>>, <<50, 60>>}

Entity(p) == [x |-> Num(p[1]), y |-> Num(p[2])]

InitIdeas == {<<Entity(<<10, 20>>)>>}

NoAlert == "none"

\* wall clock (ms) is observed at multiples of ClockStep up to MaxNow
ClockStep == defaultDuration \div 2
MaxNow == MaxClockSteps * ClockStep

(***************************************************************************)
(* Position capture.                                                       *)
(***************************************************************************)
\* identity of a newly allocated array: the least one no keyframe holds
FreshObj(kfs) ==
  CHOOSE n \in 1..(Len(kfs) + 1) : \A i \in 1..Len(kfs) : kfs[i].positions.obj # n

\* a capture that keeps only the first field of every idea
deepCopyIdeasXOnly(ids) == [i \in 1..Len(ids) |-> [f \in {"x"} |-> ids[i][f]]]

\* a capture that misses the last idea
deepCopyIdeasDropsLast(ids) ==
  [i \in 1..(Len(ids) - 1) |-> [f \in DOMAIN ids[i] |-> ids[i][f]]]

\* ideas.map(idea => ({ ...idea })): a new array of per-entity copies
deepCopyIdeas(ids) == [i \in 1..Len(ids) |-> [f \in DOMAIN ids[i] |-> ids[i][f]]]

captureBubblePositions(kfs, ids) == [obj |-> FreshObj(kfs), val |-> deepCopyIdeas(ids)]

(***************************************************************************)
(* Timeline markers.                                                       *)
(***************************************************************************)
MarkerPosition(time, duration) ==
  Mul(Div(time, Div(Num(duration), Num(1000))), Num(100))

addTimelineMarker(markers, duration, type, time) ==
  Append(SelectSeq(markers, LAMBDA m : m.type # type),
         [type |-> type, time |-> time, position |-> MarkerPosition(time, duration)])

RECURSIVE AddKeyframeMarkers(_, _, _, _, _)
AddKeyframeMarkers(markers, duration, kfs, i, onlyInterior) ==
  IF i > Len(kfs) THEN markers
  ELSE AddKeyframeMarkers(
         IF onlyInterior[1] => (Lt(Num(0), kfs[i].time) /\ Lt(kfs[i].time, onlyInterior[2]))
           THEN addTimelineMarker(markers, duration, "keyframe", kfs[i].time)
           ELSE markers,
         duration, kfs, i + 1, onlyInterior)

updateTimelineMarkers(d) ==
  AddKeyframeMarkers(
    addTimelineMarker(addTimelineMarker(<<>>, d.duration, "in", Num(0)),
                      d.duration, "out", d.outPoint),
    d.duration, d.keyframes, 1, <<TRUE, d.outPoint>>)

(***************************************************************************)
(* AnimationState methods.                                                 *)
(***************************************************************************)
updateDuration(d, duration) == [d EXCEPT !.duration = duration]

reset(d) == [d EXCEPT !.keyframes = <<>>, !.isRecording = FALSE, !.isPlaying = FALSE]

\* index of the first keyframe whose time === t, 0 if there is none
FindIndex(kfs, t) ==
  LET hits == {i \in 1..Len(kfs) : StrictEq(kfs[i].time, t)}
  IN  IF hits = {} THEN 0 ELSE CHOOSE i \in hits : \A j \in hits : i <= j

(***************************************************************************)
(* recordState(type).  Every branch runs after updateDuration(duration)    *)
(* with duration = parseInt(durationSelect.value); the operators below     *)
(* return the new AnimationState.data, the new timelineMarkers and the     *)
(* alert raised.                                                           *)
(***************************************************************************)
\* recordStart without AnimationState.reset()
recordStartNoReset(d0, duration, ids) ==
  LET d1 == updateDuration(d0, duration)
      d2 == [d1 EXCEPT !.inPoint = Num(0),
                       !.outPoint = Div(Num(duration), Num(1000)),
                       !.isRecording = TRUE]
      currentPositions == captureBubblePositions(<<>>, ids)
      d3 == [d2 EXCEPT !.keyframes =
               << [time |-> Num(0), positions |-> currentPositions],
                  [time |-> Div(Num(duration), Num(1000)), positions |-> currentPositions] >>]
      m1 == addTimelineMarker(<<>>, d3.duration, "in", Num(0))
      m2 == addTimelineMarker(m1, d3.duration, "out", Div(Num(duration), Num(1000)))
  IN  [data |-> d3, markers |-> m2, alert |-> NoAlert]

\* type === 'start'
recordStart(d0, duration, ids) ==
  LET d1 == reset(updateDuration(d0, duration))
      d2 == [d1 EXCEPT !.inPoint = Num(0),
                       !.outPoint = Div(Num(duration), Num(1000)),
                       !.isRecording = TRUE]
      currentPositions == captureBubblePositions(d2.keyframes, ids)
      d3 == [d2 EXCEPT !.keyframes =
               << [time |-> Num(0), positions |-> currentPositions],
                  [time |-> Div(Num(duration), Num(1000)), positions |-> currentPositions] >>]
      m1 == addTimelineMarker(<<>>, d3.duration, "in", Num(0))
      m2 == addTimelineMarker(m1, d3.duration, "out", Div(Num(duration), Num(1000)))
  IN  [data |-> d3, markers |-> m2, alert |-> NoAlert]

\* recordEnd that writes the captured positions to the first keyframe
recordEndUpdatesFirst(d0, markers, duration, progress, ids) ==
  LET d1 == updateDuration(d0, duration)
      endTime == Mul(progress, Div(Num(duration), Num(1000)))
      d2 == [d1 EXCEPT !.outPoint = endTime, !.isRecording = FALSE]
      endPositions == captureBubblePositions(d2.keyframes, ids)
      d3 == [d2 EXCEPT !.keyframes[1].positions = endPositions]
  IN  IF ~d1.isRecording
        THEN [data |-> d1, markers |-> markers, alert |-> "startRecordingFirst"]
        ELSE [data |-> d3, markers |-> updateTimelineMarkers(d2), alert |-> NoAlert]

\* type === 'end'
recordEnd(d0, markers, duration, progress, ids) ==
  LET d1 == updateDuration(d0, duration)
      endTime == Mul(progress, Div(Num(duration), Num(1000)))
      d2 == [d1 EXCEPT !.outPoint = endTime, !.isRecording = FALSE]
      m1 == updateTimelineMarkers(d2)
      endPositions == captureBubblePositions(d2.keyframes, ids)
      outKeyframeIndex == FindIndex(d2.keyframes, d2.outPoint)
      d3 == IF outKeyframeIndex # 0
              THEN [d2 EXCEPT !.keyframes[outKeyframeIndex].positions = endPositions]
              ELSE [d2 EXCEPT !.keyframes =
                      Append(@, [time |-> endTime, positions |-> endPositions])]
  IN  IF ~d1.isRecording
        THEN [data |-> d1, markers |-> markers, alert |-> "startRecordingFirst"]
        ELSE [data |-> d3, markers |-> m1, alert |-> NoAlert]

\* a stop that also closes the recording
stopPlaybackEndsRecording(d) == [d EXCEPT !.isPlaying = FALSE, !.isRecording = FALSE]

\* a stop that leaves the flag set
stopPlaybackKeepsFlag(d) == d

stopPlayback(d) == [d EXCEPT !.isPlaying = FALSE]

\* an implicit begin that keeps the keyframes of the earlier recording
implicitBeginKeepsKeyframes(d, maxTime) ==
  [d EXCEPT !.isRecording = TRUE, !.inPoint = Num(0), !.outPoint = maxTime]

\* "If no animation is active, start one"
implicitBegin(d, maxTime) ==
  [d EXCEPT !.isRecording = TRUE, !.inPoint = Num(0), !.outPoint = maxTime,
            !.keyframes = <<>>]

\* the bounds test of type === 'keyframe'
keyframeRejected(keyframeTime, maxTime) ==
  Le(keyframeTime, Num(0)) \/ Ge(keyframeTime, maxTime)

\* an Add keyframe that does not stop a running playback
recordKeyframeKeepsPlaying(d0, markers, duration, progress, ids) ==
  LET d1 == updateDuration(d0, duration)
      keyframeTime == Mul(progress, Div(Num(duration), Num(1000)))
      maxTime == Div(Num(duration), Num(1000))
      keyframePositions == captureBubblePositions(d1.keyframes, ids)
      keyframe == [time |-> keyframeTime, positions |-> keyframePositions]
      d3 == IF ~d1.isRecording THEN implicitBegin(d1, maxTime) ELSE d1
      d4 == [d3 EXCEPT !.keyframes = Append(@, keyframe)]
      m1 == addTimelineMarker(markers, d4.duration, "keyframe", keyframeTime)
  IN  IF keyframeRejected(keyframeTime, maxTime)
        THEN [data |-> d1, markers |-> markers, alert |-> "keyframeOutOfBounds"]
        ELSE [data |-> d4, markers |-> m1, alert |-> NoAlert]

\* type === 'keyframe'
recordKeyframe(d0, markers, duration, progress, ids) ==
  LET d1 == updateDuration(d0, duration)
      \* stopPlayback() when playing
      d2 == IF d1.isPlaying THEN stopPlayback(d1) ELSE d1
      keyframeTime == Mul(progress, Div(Num(duration), Num(1000)))
      maxTime == Div(Num(duration), Num(1000))
      keyframePositions == captureBubblePositions(d2.keyframes, ids)
      keyframe == [time |-> keyframeTime, positions |-> keyframePositions]
      d3 == IF ~d2.isRecording THEN implicitBegin(d2, maxTime) ELSE d2
      d4 == [d3 EXCEPT !.keyframes = Append(@, keyframe)]
      m1 == addTimelineMarker(markers, d4.duration, "keyframe", keyframeTime)
  IN  IF keyframeRejected(keyframeTime, maxTime)
        THEN [data |-> d2, markers |-> markers, alert |-> "keyframeOutOfBounds"]
        ELSE [data |-> d4, markers |-> m1, alert |-> NoAlert]

(***************************************************************************)
(* Player.                                                                 *)
(***************************************************************************)
\* a field of a snapshot entry as a number: a missing field reads undefined
Field(e, f) == IF f \in DOMAIN e THEN e[f] ELSE NaN

Defined(e, f) == f \in DOMAIN e

\* interpolation that runs from the end value to the start value
LerpReversed(a, b, t) == Add(b, Mul(Sub(a, b), t))

\* a + (b - a) * t
Lerp(a, b, t) == Add(a, Mul(Sub(b, a), t))

\* a bracket test with strict comparisons
BracketsStrict(kfs, currentTime) ==
  {i \in 1..(Len(kfs) - 1) :
     Lt(kfs[i].time, currentTime) /\ Lt(currentTime, kfs[i + 1].time)}

\* the adjacent pairs of keyframes that bracket currentTime
Brackets(kfs, currentTime) ==
  {i \in 1..(Len(kfs) - 1) :
     Ge(currentTime, kfs[i].time) /\ Le(currentTime, kfs[i + 1].time)}

FirstOf(S) == CHOOSE i \in S : \A j \in S : i <= j

PairFrom(kfs, brackets) ==
  IF brackets = {} THEN <<kfs[1], kfs[Len(kfs)]>>
  ELSE <<kfs[FirstOf(brackets)], kfs[FirstOf(brackets) + 1]>>

\* the pair of keyframes interpolateBubblePositions selects for currentTime
SelectKeyframes(kfs, currentTime) == PairFrom(kfs, Brackets(kfs, currentTime))

\* the segment fraction between the selected pair
segmentProgress(pair, currentTime) ==
  Div(Sub(currentTime, pair[1].time), Sub(pair[2].time, pair[1].time))

\* an interpolation that first copies every field of the start snapshot
InterpolateIdeaWhole(idea, startPos, endPos, t) ==
  [f \in DOMAIN idea \cup DOMAIN startPos \cup {"x", "y"}
         \cup (IF Defined(startPos, "vx") /\ Defined(endPos, "vx") THEN {"vx", "vy"} ELSE {})
         \cup (IF Defined(startPos, "radius") /\ Defined(endPos, "radius")
                 THEN {"radius"} ELSE {}) |->
     IF \/ f \in {"x", "y"}
        \/ f \in {"vx", "vy"} /\ Defined(startPos, "vx") /\ Defined(endPos, "vx")
        \/ f = "radius" /\ Defined(startPos, "radius") /\ Defined(endPos, "radius")
       THEN Lerp(Field(startPos, f), Field(endPos, f), t)
       ELSE IF f \in DOMAIN startPos THEN startPos[f] ELSE idea[f]]

\* the writes interpolateBubblePositions makes to one live entity: x and y
\* always, vx and vy when both snapshots define vx, radius when both define it
InterpolateIdea(idea, startPos, endPos, t) ==
  [f \in DOMAIN idea \cup {"x", "y"}
         \cup (IF Defined(startPos, "vx") /\ Defined(endPos, "vx") THEN {"vx", "vy"} ELSE {})
         \cup (IF Defined(startPos, "radius") /\ Defined(endPos, "radius")
                 THEN {"radius"} ELSE {}) |->
     IF \/ f \in {"x", "y"}
        \/ f \in {"vx", "vy"} /\ Defined(startPos, "vx") /\ Defined(endPos, "vx")
        \/ f = "radius" /\ Defined(startPos, "radius") /\ Defined(endPos, "radius")
       THEN Lerp(Field(startPos, f), Field(endPos, f), t)
       ELSE idea[f]]

\* the live entity list after interpolating between the pair with fraction t
InterpolateBetween(ids, startPositions, endPositions, t) ==
  [index \in 1..Len(ids) |->
     IF index <= Len(startPositions) /\ index <= Len(endPositions)
       THEN InterpolateIdea(ids[index], startPositions[index], endPositions[index], t)
       ELSE ids[index]]

InterpolateAt(ids, pair, currentTime) ==
  InterpolateBetween(ids, pair[1].positions.val, pair[2].positions.val,
                     segmentProgress(pair, currentTime))

InterpolateAtTime(kfs, ids, currentTime) ==
  InterpolateAt(ids, SelectKeyframes(kfs, currentTime), currentTime)

\* the live entity list after interpolateBubblePositions(progress)
interpolateBubblePositions(d, ids, progress) ==
  IF Len(d.keyframes) < 2 THEN ids
  ELSE InterpolateAtTime(d.keyframes, ids, Mul(progress, Div(Num(d.duration), Num(1000))))

\* the value a range input holds after script assigns v to it: a value that
\* is not a finite number is replaced by the default, the middle of the range
SliderAssign(v) == IF IsFinite(v) THEN v ELSE Rat(1, 2)

\* playbackDuration computed by startPlayback
PlaybackDuration(d) == Mul(Sub(d.outPoint, d.inPoint), Num(1000))

\* progress computed by one call of animate
TickProgress(elapsed, duration) == MathMin(Div(Num(elapsed), duration), Num(1))

\* animate reschedules itself exactly when progress < 1
Reschedules(progress) == Lt(progress, Num(1))

\* an animate that resets AnimationState when the playback is complete
AnimateAtResets(c, d, ids, progress) ==
  [data |-> IF Reschedules(progress) THEN d ELSE reset(d),
   ideas |-> interpolateBubblePositions(d, ids, progress),
   slider |-> SliderAssign(progress),
   currentPlaybackTime |-> Add(c.inPoint, Mul(progress, Sub(c.outPoint, c.inPoint))),
   reschedule |-> Reschedules(progress)]

\* the body of animate once progress is computed
AnimateAt(c, d, ids, progress) ==
  [data |-> IF Reschedules(progress) THEN d ELSE [d EXCEPT !.isPlaying = FALSE],
   ideas |-> interpolateBubblePositions(d, ids, progress),
   slider |-> SliderAssign(progress),
   currentPlaybackTime |-> Add(c.inPoint, Mul(progress, Sub(c.outPoint, c.inPoint))),
   reschedule |-> Reschedules(progress)]

\* one call of the closure animate created by animateBubbles(c.duration)
animate(c, d, ids, sl, cpt, clock, startTime) ==
  IF ~d.isPlaying
    THEN [data |-> d, ideas |-> ids, slider |-> sl, currentPlaybackTime |-> cpt,
          reschedule |-> FALSE]
    ELSE AnimateAt(c, d, ids, TickProgress(clock - startTime, c.duration))

\* the closure animateBubbles(duration) creates
Closure(d, duration) == [duration |-> duration, inPoint |-> d.inPoint, outPoint |-> d.outPoint]

\* the state after startPlayback started: r is the outcome of the first animate()
Started(r, c, clock) ==
  [data |-> r.data, ideas |-> r.ideas, slider |-> r.slider,
   currentPlaybackTime |-> r.currentPlaybackTime,
   playbackStartTime |-> clock, playbackDuration |-> c.duration,
   queued |-> IF r.reschedule THEN <<c>> ELSE <<>>, alert |-> NoAlert]

StartWith(c, d1, ids, sl, cpt, clock) ==
  Started(animate(c, d1, ids, sl, cpt, clock, clock), c, clock)

\* startPlayback(): the new state, and whether a frame callback was queued
startPlayback(d, ids, sl, cpt, pst, pdur, clock) ==
  IF Len(d.keyframes) < 2
    THEN [data |-> d, ideas |-> ids, slider |-> sl, currentPlaybackTime |-> cpt,
          playbackStartTime |-> pst, playbackDuration |-> pdur,
          queued |-> <<>>, alert |-> "needTwoKeyframes"]
  ELSE IF d.isPlaying
    THEN [data |-> stopPlayback(d), ideas |-> ids, slider |-> sl,
          currentPlaybackTime |-> cpt, playbackStartTime |-> pst,
          playbackDuration |-> pdur, queued |-> <<>>, alert |-> NoAlert]
  ELSE StartWith(Closure(d, PlaybackDuration(d)), [d EXCEPT !.isPlaying = TRUE],
                 ids, sl, cpt, clock)

(***************************************************************************)
(* Persistence.                                                            *)
(***************************************************************************)
JsonEntity(e) == [f \in DOMAIN e |-> JsonNumber(e[f])]

JsonKeyframe(kf) ==
  [time |-> JsonNumber(kf.time),
   positions |-> [i \in 1..Len(kf.positions.val) |-> JsonEntity(kf.positions.val[i])]]

\* the document JSON.parse reads back from what saveAnimation writes
\* (timestamp and name are not read by loadAnimation)
SavedDocument(d) ==
  [parses |-> TRUE, hasKeyframes |-> TRUE,
   inPoint |-> JsonNumber(d.inPoint), outPoint |-> JsonNumber(d.outPoint),
   keyframes |-> [i \in 1..Len(d.keyframes) |-> JsonKeyframe(d.keyframes[i])],
   duration |-> Num(d.duration)]

\* a save that accepts a single keyframe
saveRejectedBelowOne(d) == Len(d.keyframes) < 1

saveRejected(d) == Len(d.keyframes) < 2

\* documents that do not come from saveAnimation: not JSON, no keyframes
\* field, one keyframe, and two keyframes without inPoint and outPoint
ForeignKeyframe(t, p) == [time |-> Num(t), positions |-> <<Entity(p)>>]

ForeignDocuments ==
  { [parses |-> FALSE, hasKeyframes |-> FALSE, inPoint |-> Null, outPoint |-> Null,
     keyframes |-> <<>>, duration |-> Null],
    [parses |-> TRUE, hasKeyframes |-> FALSE, inPoint |-> Null, outPoint |-> Null,
     keyframes |-> <<>>, duration |-> Null],
    [parses |-> TRUE, hasKeyframes |-> TRUE, inPoint |-> Num(0), outPoint |-> Num(5),
     keyframes |-> <<ForeignKeyframe(0, <<10, 20>>)>>, duration |-> Num(5000)],
    [parses |-> TRUE, hasKeyframes |-> TRUE, inPoint |-> Null, outPoint |-> Null,
     keyframes |-> <<ForeignKeyframe(0, <<10, 20>>), ForeignKeyframe(5, <<50, 60>>)>>,
     duration |-> Num(5000)] }

\* a validation that accepts a single keyframe
loadRejectedBelowOne(doc) == ~doc.hasKeyframes \/ Len(doc.keyframes) < 1

loadRejected(doc) == ~doc.hasKeyframes \/ Len(doc.keyframes) < 2

\* the object loadAnimation builds from a valid document
LoadedAnimationData(doc) ==
  [inPoint |-> OrDefault(doc.inPoint, Num(0)),
   outPoint |-> OrDefault(doc.outPoint, Num(10)),
   keyframes |-> doc.keyframes,
   duration |-> OrDefault(doc.duration, Num(defaultDuration)),
   isRecording |-> FALSE, isPlaying |-> FALSE]

\* reader.onload of loadAnimation.  The object is assigned to the undeclared
\* name animationData and the empty list to the undeclared name
\* timelineMarkers: in a classic script both become properties of the global
\* object, and AnimationState.data is not assigned.
loadAnimation(doc, d, markers, dsel, glob) ==
  IF ~doc.parses
    THEN [data |-> d, markers |-> markers, durationSelect |-> dsel,
          globals |-> glob, alert |-> "errorLoadingFile"]
  ELSE IF loadRejected(doc)
    THEN [data |-> d, markers |-> markers, durationSelect |-> dsel,
          globals |-> glob, alert |-> "invalidFile"]
  ELSE
    LET animationData == LoadedAnimationData(doc)
        m1 == AddKeyframeMarkers(markers, d.duration, animationData.keyframes, 1,
                                 <<FALSE, Null>>)
        m2 == addTimelineMarker(m1, d.duration, "in", Num(0))
        m3 == addTimelineMarker(m2, d.duration, "out", animationData.outPoint)
    IN  [data |-> d, markers |-> m3, durationSelect |-> animationData.duration[1],
         globals |-> [animationData |-> <<animationData>>, timelineMarkers |-> <<>>],
         alert |-> NoAlert]

(***************************************************************************)
(* Initial state: AnimationState as constructed, one idea on screen, the   *)
(* duration selector on the default duration.                              *)
(***************************************************************************)
(***************************************************************************)
(* The video playlist and its display.  Indexes are those of the code      *)
(* (from 0); the sequences that hold the arrays are indexed from 1.        *)
(***************************************************************************)
\* the lines a playlist file can hold: two links with a video id, one link
\* to youtube.com without one, and a line that is no link
Urls == {"youtu.be/a", "youtu.be/b", "youtube.com/c"}

NoId == "null"

\* extractYouTubeId(url): the id behind youtu.be/ or watch?v=, null otherwise
extractYouTubeId(url) ==
  IF url = "youtu.be/a" THEN "a" ELSE IF url = "youtu.be/b" THEN "b" ELSE NoId

\* line.includes('youtube.com') || line.includes('youtu.be')
IsYoutubeLine(line) == line \in Urls

\* the files the operator can select in #playlistUpload
NoFile == [name |-> "", lines |-> <<>>]

PlaylistFiles ==
  {[name |-> "notes.md", lines |-> <<"youtu.be/a">>],
   [name |-> "mix.txt", lines |-> <<"youtu.be/a", "youtu.be/b">>],
   [name |-> "odd.txt", lines |-> <<"youtube.com/c", "youtu.be/a">>],
   [name |-> "words.txt", lines |-> <<"hello">>]}

\* file.name.toLowerCase().endsWith('.txt')
EndsWithTxt(name) == name \in {"mix.txt", "odd.txt", "words.txt"}

\* file.name.replace('.txt', '')
PlaylistName(name) ==
  IF name = "mix.txt" THEN "mix" ELSE IF name = "odd.txt" THEN "odd"
  ELSE IF name = "words.txt" THEN "words" ELSE name

\* longest playlist a file yields
MaxPlaylistLen == 2

\* a slot of videoTitles that was never written, and one marked as attempted
UndefinedTitle == "undefined"
NullTitle == "null"

\* videoTitles = []
NoTitles == [i \in 0..(MaxPlaylistLen - 1) |-> UndefinedTitle]

\* what fetchVideoTitle(videoId) resolves to: the title, or null on failure
FetchedTitles(videoId) ==
  {IF videoId = "a" THEN "title a" ELSE "title b", NullTitle}

Truthy(title) == title \notin {UndefinedTitle, NullTitle}

\* [...new Set(urls)]: first occurrences, in order
RECURSIVE UniqueUrls(_)
UniqueUrls(urls) ==
  IF urls = <<>> THEN <<>>
  ELSE LET front == UniqueUrls(SubSeq(urls, 1, Len(urls) - 1))
           u == urls[Len(urls)]
       IN  IF \E i \in 1..Len(front) : front[i] = u THEN front ELSE Append(front, u)

\* the playlist item built for one entry: the url its click handler keeps,
\* its text and whether it carries the class 'playing'
PlaylistItem(url, index, title, current) ==
  [url |-> url,
   text |-> IF Truthy(title) THEN [title |-> title, number |-> 0, id |-> ""]
            ELSE [title |-> "", number |-> index + 1,
                  id |-> IF extractYouTubeId(url) # NoId THEN extractYouTubeId(url)
                                                         ELSE "Invalid URL"],
   playing |-> index = current]

\* the for loop of a display refresh from index on, up to its next await:
\* the container, and the invocation left waiting for a title, if any
RECURSIVE RunRefresh(_, _, _, _, _, _)
RunRefresh(playlist, titles, current, container, flagged, index) ==
  IF index >= Len(playlist)
    THEN [container |-> container, waiting |-> <<>>]
  ELSE IF ~Truthy(titles[index]) /\ extractYouTubeId(playlist[index + 1]) # NoId
    THEN [container |-> container,
          waiting |-> <<[flagged |-> flagged, index |-> index, url |-> playlist[index + 1]]>>]
    ELSE RunRefresh(playlist, titles, current,
                    Append(container,
                           PlaylistItem(playlist[index + 1], index, titles[index], current)),
                    flagged, index + 1)

\* a refresh that does not look at the flag before it starts
updateVideoPlaylistDisplayUnguarded(p) ==
  IF Len(p.videoPlaylist) = 0 THEN p
  ELSE LET r == RunRefresh(p.videoPlaylist, p.videoTitles, p.videoCurrentIndex, <<>>, TRUE, 0)
       IN  [p EXCEPT !.playlistContainer = r.container,
                     !.refreshes = @ \o r.waiting,
                     !.isUpdatingPlaylistDisplay = r.waiting # <<>>]

\* updateVideoPlaylistDisplay() up to its first await.  p holds videoPlaylist,
\* videoTitles, videoCurrentIndex, the container, the flag and the waiting
\* invocations
updateVideoPlaylistDisplay(p) ==
  IF p.isUpdatingPlaylistDisplay \/ Len(p.videoPlaylist) = 0 THEN p
  ELSE LET r == RunRefresh(p.videoPlaylist, p.videoTitles, p.videoCurrentIndex, <<>>, TRUE, 0)
       IN  [p EXCEPT !.playlistContainer = r.container,
                     !.refreshes = @ \o r.waiting,
                     !.isUpdatingPlaylistDisplay = r.waiting # <<>>]

\* updateVideoPlaylistDisplaySilent() up to its first await
updateVideoPlaylistDisplaySilent(p) ==
  LET r == RunRefresh(p.videoPlaylist, p.videoTitles, p.videoCurrentIndex, <<>>, FALSE, 0)
  IN  [p EXCEPT !.playlistContainer = r.container, !.refreshes = @ \o r.waiting]

\* the sequence without its k-th element
RemoveAt(seq, k) == SubSeq(seq, 1, k - 1) \o SubSeq(seq, k + 1, Len(seq))

\* the k-th waiting invocation resumes with the fetched title and runs to its
\* next await or to its end
ResumeRefresh(p, k, title) ==
  LET w == p.refreshes[k]
      titles == [p.videoTitles EXCEPT ![w.index] = title]
      r == RunRefresh(p.videoPlaylist, titles, p.videoCurrentIndex,
                      Append(p.playlistContainer,
                             PlaylistItem(w.url, w.index, title, p.videoCurrentIndex)),
                      w.flagged, w.index + 1)
  IN  [p EXCEPT !.videoTitles = titles,
                !.playlistContainer = r.container,
                !.refreshes = RemoveAt(@, k) \o r.waiting,
                !.isUpdatingPlaylistDisplay = IF w.flagged THEN r.waiting # <<>> ELSE @]

\* the playlist state as one record
PlaylistState ==
  [videoPlaylist |-> videoPlaylist, videoTitles |-> videoTitles,
   videoCurrentIndex |-> videoCurrentIndex, playlistContainer |-> playlistContainer,
   isUpdatingPlaylistDisplay |-> isUpdatingPlaylistDisplay, refreshes |-> refreshes]

SetPlaylistState(p) ==
  /\ videoPlaylist' = p.videoPlaylist
  /\ videoTitles' = p.videoTitles
  /\ videoCurrentIndex' = p.videoCurrentIndex
  /\ playlistContainer' = p.playlistContainer
  /\ isUpdatingPlaylistDisplay' = p.isUpdatingPlaylistDisplay
  /\ refreshes' = p.refreshes

InitPlaylist ==
  /\ uploadedPlaylists = <<>>
  /\ currentPlaylistIndex = -1
  /\ videoPlaylist = <<>>
  /\ videoCurrentIndex = 0
  /\ videoTitles = NoTitles
  /\ playlistContainer = <<>>
  /\ isUpdatingPlaylistDisplay = FALSE
  /\ refreshes = <<>>
  /\ isUploadingPlaylist = FALSE
  /\ fileInput = NoFile
  /\ readers = <<>>
  /\ lastCall = [op |-> "init", outcome |-> "none"]
  /\ ncalls = 0

Init ==
  /\ data = [inPoint |-> Null, outPoint |-> Null, keyframes |-> <<>>,
             duration |-> defaultDuration, isRecording |-> FALSE, isPlaying |-> FALSE]
  /\ timelineMarkers = <<>>
  /\ playbackStartTime = 0
  /\ playbackDuration = Num(0)
  /\ currentPlaybackTime = Num(0)
  /\ ideas \in InitIdeas
  /\ slider = Num(0)
  /\ durationSelect = defaultDuration
  /\ now = 0
  /\ pending = <<>>
  /\ frameLeft = 0
  /\ file = <<>>
  /\ globals = [animationData |-> <<>>, timelineMarkers |-> <<>>]
  /\ last = [op |-> "init", alert |-> NoAlert]
  /\ nops = 0
  /\ scenario = [phase |-> "none", P0 |-> <<>>]
  /\ cancelled = 0
  /\ InitPlaylist

\* an operator action runs between frames, within the budget of actions
CanOperate == frameLeft = 0 /\ nops < MaxOps

Operated(op, alert) ==
  /\ nops' = nops + 1
  /\ last' = [op |-> op, alert |-> alert]

\* an adjustment that does not count as an operation
Adjusted(op) ==
  /\ nops' = nops
  /\ last' = [op |-> op, alert |-> NoAlert]

\* clearing isPlaying cancels every frame callback that is pending
Cancellation == cancelled' = IF ~data'.isPlaying THEN Len(pending') ELSE cancelled

NoScenario == [phase |-> "none", P0 |-> <<>>]

(***************************************************************************)
(* Recorder actions.                                                       *)
(***************************************************************************)
RecordStart ==
  /\ CanOperate
  /\ \E r \in {recordStart(data, durationSelect, ideas)} :
           /\ Operated("start", r.alert)
           /\ data' = r.data
           /\ timelineMarkers' = r.markers
           /\ scenario' = [phase |-> "begun", P0 |-> ideas]
           /\ UNCHANGED <<playbackStartTime, playbackDuration, currentPlaybackTime, ideas,
                          slider, durationSelect, now, pending, frameLeft, file,
                          globals>>
  /\ Cancellation
  /\ UNCHANGED playlistVars

RecordEnd ==
  /\ CanOperate
  /\ \E r \in {recordEnd(data, timelineMarkers, durationSelect, slider, ideas)} :
           /\ Len(r.data.keyframes) <= MaxKeyframes
           /\ Operated("end", r.alert)
           /\ data' = r.data
           /\ timelineMarkers' = r.markers
           /\ scenario' = IF scenario.phase = "begun" /\ slider = Num(1)
                            THEN [scenario EXCEPT !.phase = "ended"]
                          ELSE IF scenario.phase = "begun" /\ Lt(Num(0), slider)
                            THEN [scenario EXCEPT !.phase = "endedEarly"]
                            ELSE NoScenario
           /\ UNCHANGED <<playbackStartTime, playbackDuration, currentPlaybackTime, ideas,
                          slider, durationSelect, now, pending, frameLeft, file,
                          globals>>
  /\ Cancellation
  /\ UNCHANGED playlistVars

RecordKeyframe ==
  /\ CanOperate
  /\ \E r \in {recordKeyframe(data, timelineMarkers, durationSelect, slider, ideas)} :
           /\ Len(r.data.keyframes) <= MaxKeyframes
           /\ Operated("keyframe", r.alert)
           /\ data' = r.data
           /\ timelineMarkers' = r.markers
           /\ scenario' = NoScenario
           /\ UNCHANGED <<playbackStartTime, playbackDuration, currentPlaybackTime, ideas,
                          slider, durationSelect, now, pending, frameLeft, file,
                          globals>>
  /\ Cancellation
  /\ UNCHANGED playlistVars

(***************************************************************************)
(* Player actions.                                                         *)
(***************************************************************************)
StartPlayback ==
  /\ CanOperate
  /\ \E r \in {startPlayback(data, ideas, slider, currentPlaybackTime, playbackStartTime,
                                playbackDuration, now)} :
           /\ Len(pending) + Len(r.queued) <= MaxPending
           /\ r.data.isPlaying => Le(Add(Num(now), r.playbackDuration), Num(MaxNow))
           /\ Operated("play", r.alert)
           /\ data' = r.data
           /\ ideas' = r.ideas
           /\ slider' = r.slider
           /\ currentPlaybackTime' = r.currentPlaybackTime
           /\ playbackStartTime' = r.playbackStartTime
           /\ playbackDuration' = r.playbackDuration
           /\ pending' = pending \o r.queued
           /\ scenario' = IF scenario.phase \in {"ended", "endedEarly"}
                            THEN [phase |-> "played", P0 |-> ideas]
                            ELSE NoScenario
           /\ UNCHANGED <<timelineMarkers, durationSelect, now, frameLeft, file,
                          globals>>
  /\ Cancellation
  /\ UNCHANGED playlistVars


StopPlayback ==
  /\ CanOperate
  /\ Operated("stop", NoAlert)
  /\ data' = stopPlayback(data)
  /\ scenario' = NoScenario
  /\ UNCHANGED <<timelineMarkers, playbackStartTime, playbackDuration,
                 currentPlaybackTime, ideas, slider, durationSelect, now,
                 pending, frameLeft, file, globals>>
  /\ Cancellation
  /\ UNCHANGED playlistVars

\* one callback of the current frame: the callbacks queued when the frame
\* began run in order, and what they queue runs in the next frame
Tick ==
  /\ pending # <<>>
  /\ \E r \in {animate(Head(pending), data, ideas, slider, currentPlaybackTime, now,
                        playbackStartTime)} :
         /\ data' = r.data
         /\ ideas' = r.ideas
         /\ slider' = r.slider
         /\ currentPlaybackTime' = r.currentPlaybackTime
         /\ pending' = IF r.reschedule THEN Append(Tail(pending), Head(pending))
                                       ELSE Tail(pending)
  /\ frameLeft' = (IF frameLeft = 0 THEN Len(pending) ELSE frameLeft) - 1
  /\ UNCHANGED <<timelineMarkers, playbackStartTime, playbackDuration,
                 durationSelect, now, file, globals, last, nops, scenario>>
  /\ cancelled' = IF ~data'.isPlaying THEN Len(pending')
                  ELSE IF cancelled > 0 THEN cancelled - 1 ELSE 0
  /\ UNCHANGED playlistVars

\* the clock is read only by a running playback
AdvanceTime ==
  /\ frameLeft = 0
  /\ data.isPlaying
  /\ now < MaxNow
  /\ now' = IF now + ClockStep < MaxNow THEN now + ClockStep ELSE MaxNow
  /\ UNCHANGED <<data, timelineMarkers, playbackStartTime, playbackDuration,
                 currentPlaybackTime, ideas, slider, durationSelect, pending,
                 frameLeft, file, globals, last, nops, scenario>>
  /\ Cancellation
  /\ UNCHANGED playlistVars

(***************************************************************************)
(* Controls.                                                               *)
(***************************************************************************)
\* the slider's input listener
\* an input listener that scrubs during a playback too
sliderInputWhilePlaying(d, ids, cpt, progress) ==
  IF Len(d.keyframes) >= 2
    THEN [ideas |-> interpolateBubblePositions(d, ids, progress),
          currentPlaybackTime |-> Mul(progress, Div(Num(d.duration), Num(1000)))]
    ELSE [ideas |-> ids, currentPlaybackTime |-> cpt]

sliderInput(d, ids, cpt, progress) ==
  IF ~d.isPlaying /\ Len(d.keyframes) >= 2
    THEN [ideas |-> interpolateBubblePositions(d, ids, progress),
          currentPlaybackTime |-> Mul(progress, Div(Num(d.duration), Num(1000)))]
    ELSE [ideas |-> ids, currentPlaybackTime |-> cpt]

SliderInput ==
  /\ CanOperate
  /\ \E progress \in Progresses :
         \E r \in {sliderInput(data, ideas, currentPlaybackTime, progress)} :
             /\ Operated("input", NoAlert)
             /\ slider' = progress
             /\ ideas' = r.ideas
             /\ currentPlaybackTime' = r.currentPlaybackTime
             /\ scenario' = NoScenario
             /\ UNCHANGED <<data, timelineMarkers, playbackStartTime, playbackDuration,
                            durationSelect, now, pending, frameLeft, file, globals>>
  /\ Cancellation
  /\ UNCHANGED playlistVars

\* the slider's change listener
sliderChange(d, markers, ids, progress) ==
  IF ~d.isPlaying /\ d.isRecording /\ Ge(progress, Rat(95, 100))
    THEN
      LET endPositions == captureBubblePositions(d.keyframes, ids)
          outKeyframeIndex == FindIndex(d.keyframes, d.outPoint)
          d1 == IF outKeyframeIndex # 0
                  THEN [d EXCEPT !.keyframes[outKeyframeIndex].positions = endPositions]
                  ELSE d
      IN  [data |-> d1, markers |-> updateTimelineMarkers(d1)]
    ELSE [data |-> d, markers |-> markers]

SliderChange ==
  /\ CanOperate
  /\ \E r \in {sliderChange(data, timelineMarkers, ideas, slider)} :
           /\ last.op = "input"
           /\ Operated("change", NoAlert)
           /\ data' = r.data
           /\ timelineMarkers' = r.markers
           /\ scenario' = NoScenario
           /\ UNCHANGED <<playbackStartTime, playbackDuration, currentPlaybackTime, ideas,
                          slider, durationSelect, now, pending, frameLeft, file, globals>>
  /\ Cancellation
  /\ UNCHANGED playlistVars

\* the duration selector's change listener
SelectDuration ==
  /\ CanOperate
  /\ \E duration \in DurationOptions :
         /\ duration # durationSelect
         /\ Adjusted("duration")
         /\ durationSelect' = duration
         /\ data' = [data EXCEPT !.duration = duration]
         /\ scenario' = NoScenario
         /\ UNCHANGED <<timelineMarkers, playbackStartTime, playbackDuration,
                        currentPlaybackTime, ideas, slider, now, pending,
                        frameLeft, file, globals>>
  /\ Cancellation
  /\ UNCHANGED playlistVars

\* external code moves a live idea
Move ==
  /\ CanOperate
  /\ \E i \in 1..Len(ideas), p \in Positions :
         /\ ideas[i] # [ideas[i] EXCEPT !.x = Num(p[1]), !.y = Num(p[2])]
         /\ Adjusted("move")
         /\ ideas' = [ideas EXCEPT ![i].x = Num(p[1]), ![i].y = Num(p[2])]
         /\ scenario' = IF scenario.phase = "begun" THEN scenario ELSE NoScenario
         /\ UNCHANGED <<data, timelineMarkers, playbackStartTime, playbackDuration,
                        currentPlaybackTime, slider, durationSelect, now, pending,
                        frameLeft, file, globals>>
  /\ Cancellation
  /\ UNCHANGED playlistVars

(***************************************************************************)
(* Persistence actions.                                                    *)
(***************************************************************************)
SaveAnimation ==
  /\ CanOperate
  /\ Operated("save", IF saveRejected(data) THEN "recordFirst" ELSE NoAlert)
  /\ file' = IF saveRejected(data) THEN file ELSE <<SavedDocument(data)>>
  /\ scenario' = NoScenario
  /\ UNCHANGED <<data, timelineMarkers, playbackStartTime, playbackDuration,
                 currentPlaybackTime, ideas, slider, durationSelect, now,
                 pending, frameLeft, globals>>
  /\ Cancellation
  /\ UNCHANGED playlistVars

\* the file picker hands doc to reader.onload
LoadDocument(doc) ==
  /\ CanOperate
  /\ \E r \in {loadAnimation(doc, data, timelineMarkers, durationSelect, globals)} :
         /\ Operated("load", r.alert)
         /\ data' = r.data
         /\ timelineMarkers' = r.markers
         /\ durationSelect' = r.durationSelect
         /\ globals' = r.globals
         /\ scenario' = NoScenario
         /\ UNCHANGED <<playbackStartTime, playbackDuration, currentPlaybackTime, ideas,
                        slider, now, pending, frameLeft, file>>
  /\ Cancellation
  /\ UNCHANGED playlistVars

\* the documents the operator can pick
Documents == ForeignDocuments \cup {file[i] : i \in 1..Len(file)}

LoadAnimation == \E doc \in Documents : LoadDocument(doc)

(***************************************************************************)
(* Diagnostic helpers exported on window.                                  *)
(***************************************************************************)
testBubbleCapture(d, markers, ids) ==
  LET positions == captureBubblePositions(d.keyframes, ids)
      d1 == [reset(d) EXCEPT !.inPoint = Num(0), !.outPoint = Num(10),
                             !.keyframes = << [time |-> Num(0), positions |-> positions],
                                              [time |-> Num(10), positions |-> positions] >>]
  IN  IF Len(ids) = 0 THEN [data |-> d, markers |-> markers]
      ELSE [data |-> d1, markers |-> <<>>]

TestBubbleCapture ==
  /\ CanOperate
  /\ \E r \in {testBubbleCapture(data, timelineMarkers, ideas)} :
         /\ Operated("test", NoAlert)
         /\ data' = r.data
         /\ timelineMarkers' = r.markers
         /\ scenario' = NoScenario
         /\ UNCHANGED <<playbackStartTime, playbackDuration, currentPlaybackTime, ideas,
                        slider, durationSelect, now, pending, frameLeft, file, globals>>
  /\ Cancellation
  /\ UNCHANGED playlistVars

updateKeyframesForCurrentPositions(d, ids) ==
  LET currentPositions == captureBubblePositions(d.keyframes, ids)
  IN  IF ~d.isRecording /\ Len(d.keyframes) = 0 THEN d
      ELSE [d EXCEPT !.keyframes =
              [i \in 1..Len(d.keyframes) |->
                 [d.keyframes[i] EXCEPT !.positions = currentPositions]]]

UpdateKeyframesForCurrentPositions ==
  /\ CanOperate
  /\ Operated("updateAll", NoAlert)
  /\ data' = updateKeyframesForCurrentPositions(data, ideas)
  /\ scenario' = NoScenario
  /\ UNCHANGED <<timelineMarkers, playbackStartTime, playbackDuration,
                 currentPlaybackTime, ideas, slider, durationSelect, now, pending,
                 frameLeft, file, globals>>
  /\ Cancellation
  /\ UNCHANGED playlistVars

AbsNum(v) == IF ToNumber(v)[1] < 0 THEN Neg(v) ELSE ToNumber(v)

\* the forEach of autoUpdateKeyframes: <<index of the closest keyframe, its distance>>
RECURSIVE ClosestKeyframe(_, _, _, _)
ClosestKeyframe(kfs, currentTime, i, best) ==
  IF i > Len(kfs) THEN best
  ELSE LET distance == AbsNum(Sub(kfs[i].time, currentTime))
       IN  ClosestKeyframe(kfs, currentTime, i + 1,
                           IF Lt(distance, best[2]) THEN <<i, distance>> ELSE best)

autoUpdateKeyframes(d, ids, progress) ==
  LET currentTime == Mul(progress, Div(Num(d.duration), Num(1000)))
      closest == ClosestKeyframe(d.keyframes, currentTime, 1, <<0, PosInf>>)
  IN  IF Len(d.keyframes) > 0 /\ closest[1] # 0 /\ Lt(closest[2], Rat(1, 2))
        THEN [d EXCEPT !.keyframes[closest[1]].positions =
                captureBubblePositions(d.keyframes, ids)]
        ELSE d

AutoUpdateKeyframes ==
  /\ CanOperate
  /\ Operated("autoUpdate", NoAlert)
  /\ data' = autoUpdateKeyframes(data, ideas, slider)
  /\ scenario' = NoScenario
  /\ UNCHANGED <<timelineMarkers, playbackStartTime, playbackDuration,
                 currentPlaybackTime, ideas, slider, durationSelect, now, pending,
                 frameLeft, file, globals>>
  /\ Cancellation
  /\ UNCHANGED playlistVars

Next ==
  \/ RecordStart
  \/ RecordEnd
  \/ RecordKeyframe
  \/ StartPlayback
  \/ StopPlayback
  \/ Tick
  \/ AdvanceTime
  \/ SliderInput
  \/ SliderChange
  \/ SelectDuration
  \/ Move
  \/ SaveAnimation
  \/ LoadAnimation
  \/ TestBubbleCapture
  \/ UpdateKeyframesForCurrentPositions
  \/ AutoUpdateKeyframes

Spec == Init /\ [][Next]_vars

(***************************************************************************)
(* Capture and playback over live lists of every shape: no idea, one idea, *)
(* and two ideas of which one is a bubble with velocity and radius.        *)
(***************************************************************************)
Bubble ==
  [x |-> Num(50), y |-> Num(60), vx |-> Num(1), vy |-> Num(2), radius |-> Num(30)]

IdeaLists == {<<>>, <<Entity(<<10, 20>>)>>, <<Entity(<<10, 20>>), Bubble>>}

InitCapture ==
  /\ data = [inPoint |-> Null, outPoint |-> Null, keyframes |-> <<>>,
             duration |-> defaultDuration, isRecording |-> FALSE, isPlaying |-> FALSE]
  /\ timelineMarkers = <<>>
  /\ playbackStartTime = 0
  /\ playbackDuration = Num(0)
  /\ currentPlaybackTime = Num(0)
  /\ ideas \in IdeaLists
  /\ slider = Num(0)
  /\ durationSelect = defaultDuration
  /\ now = 0
  /\ pending = <<>>
  /\ frameLeft = 0
  /\ file = <<>>
  /\ globals = [animationData |-> <<>>, timelineMarkers |-> <<>>]
  /\ last = [op |-> "init", alert |-> NoAlert]
  /\ nops = 0
  /\ scenario = [phase |-> "none", P0 |-> <<>>]
  /\ cancelled = 0
  /\ InitPlaylist

NextCapture ==
  \/ RecordStart
  \/ RecordEnd
  \/ RecordKeyframe
  \/ StartPlayback
  \/ Tick
  \/ AdvanceTime
  \/ SliderInput
  \/ Move

SpecCapture == InitCapture /\ [][NextCapture]_vars

(***************************************************************************)
(* Recording and playback while external code edits the live list: ideas   *)
(* are added, removed, renamed and moved between the operator's actions.   *)
(***************************************************************************)
\* an idea that carries a title besides its position
Titled(title, p) == [x |-> Num(p[1]), y |-> Num(p[2]), title |-> title]

\* an idea that carries vx and no vy
Drifting == [x |-> Num(10), y |-> Num(20), vx |-> Num(1)]

\* the live lists external code can leave behind: ideas added, removed, renamed
EditedLists ==
  {<<>>, <<Titled("a", <<10, 20>>)>>, <<Titled("a", <<50, 60>>)>>,
   <<Titled("b", <<10, 20>>), Bubble>>, <<Drifting>>}

\* external code replaces the content of the live list
EditIdeas ==
  /\ CanOperate
  /\ \E ids \in EditedLists :
         /\ ids # ideas
         /\ Adjusted("edit")
         /\ ideas' = ids
         /\ scenario' = NoScenario
         /\ UNCHANGED <<data, timelineMarkers, playbackStartTime, playbackDuration,
                        currentPlaybackTime, slider, durationSelect, now, pending,
                        frameLeft, file, globals>>
  /\ Cancellation
  /\ UNCHANGED playlistVars

NextEdit ==
  \/ RecordStart
  \/ RecordEnd
  \/ StartPlayback
  \/ Tick
  \/ AdvanceTime
  \/ SliderInput
  \/ EditIdeas

SpecEdit == InitCapture /\ [][NextEdit]_vars

(***************************************************************************)
(* The recorder and the timeline control alone, with the control resting   *)
(* at 0 or at the middle of the timeline when the recorder is first used.  *)
(***************************************************************************)
InitMarkers ==
  /\ data = [inPoint |-> Null, outPoint |-> Null, keyframes |-> <<>>,
             duration |-> defaultDuration, isRecording |-> FALSE, isPlaying |-> FALSE]
  /\ timelineMarkers = <<>>
  /\ playbackStartTime = 0
  /\ playbackDuration = Num(0)
  /\ currentPlaybackTime = Num(0)
  /\ ideas \in InitIdeas
  /\ slider \in {Num(0), Rat(1, 2)}
  /\ durationSelect = defaultDuration
  /\ now = 0
  /\ pending = <<>>
  /\ frameLeft = 0
  /\ file = <<>>
  /\ globals = [animationData |-> <<>>, timelineMarkers |-> <<>>]
  /\ last = [op |-> "init", alert |-> NoAlert]
  /\ nops = 0
  /\ scenario = [phase |-> "none", P0 |-> <<>>]
  /\ cancelled = 0
  /\ InitPlaylist

NextMarkers ==
  \/ RecordStart
  \/ RecordEnd
  \/ RecordKeyframe
  \/ SliderInput
  \/ SliderChange
  \/ SelectDuration

SpecMarkers == InitMarkers /\ [][NextMarkers]_vars

(***************************************************************************)
(* Playlist handlers.  A handler runs up to its first await; FetchDone     *)
(* resumes one waiting display refresh, ReaderLoad delivers one file.      *)
(***************************************************************************)
CanCall == ncalls < MaxPlaylistOps

Called(op, outcome) ==
  /\ ncalls' = ncalls + 1
  /\ lastCall' = [op |-> op, outcome |-> outcome]

\* an event the browser delivers: it is not a call of the operator
Delivered(op, outcome) ==
  /\ ncalls' = ncalls
  /\ lastCall' = [op |-> op, outcome |-> outcome]

\* the operator picks a file in #playlistUpload
SelectFile ==
  /\ \E f \in PlaylistFiles :
         /\ f # fileInput
         /\ fileInput' = f
  /\ Delivered("select", "none")
  /\ UNCHANGED <<uploadedPlaylists, currentPlaylistIndex, videoPlaylist, videoCurrentIndex,
                 videoTitles, playlistContainer, isUpdatingPlaylistDisplay, refreshes,
                 isUploadingPlaylist, readers>>
  /\ UNCHANGED animationVars

\* uploadPlaylist(): the guard, the reads queued with readAsText, the outcome
uploadPlaylist(uploading, selected, queued) ==
  IF uploading
    THEN [isUploadingPlaylist |-> uploading, readers |-> queued, outcome |-> "skipped"]
  ELSE IF selected = NoFile
    THEN [isUploadingPlaylist |-> TRUE, readers |-> queued, outcome |-> "noFile"]
  ELSE IF ~EndsWithTxt(selected.name)
    THEN [isUploadingPlaylist |-> TRUE, readers |-> queued, outcome |-> "wrongExtension"]
    ELSE [isUploadingPlaylist |-> FALSE, readers |-> Append(queued, selected),
          outcome |-> "reading"]

UploadPlaylist ==
  /\ CanCall
  /\ \E r \in {uploadPlaylist(isUploadingPlaylist, fileInput, readers)} :
         /\ Called("upload", r.outcome)
         /\ isUploadingPlaylist' = r.isUploadingPlaylist
         /\ readers' = r.readers
  /\ UNCHANGED <<uploadedPlaylists, currentPlaylistIndex, videoPlaylist, videoCurrentIndex,
                 videoTitles, playlistContainer, isUpdatingPlaylistDisplay, refreshes,
                 fileInput>>
  /\ UNCHANGED animationVars

\* uploadedPlaylists after the playlist name was pushed or replaced, and its index
StoreUploaded(uploaded, name, urls) ==
  LET hits == {i \in 1..Len(uploaded) : uploaded[i].name = name}
      existingIndex == IF hits = {} THEN -1 ELSE (CHOOSE i \in hits : \A j \in hits : i <= j) - 1
  IN  IF existingIndex = -1
        THEN [uploaded |-> Append(uploaded, [name |-> name, urls |-> urls]),
              index |-> Len(uploaded)]
        ELSE [uploaded |-> [uploaded EXCEPT ![existingIndex + 1] = [name |-> name, urls |-> urls]],
              index |-> existingIndex]

\* reader.onload of uploadPlaylist
readerOnload(p, uploaded, cpi, selected, loaded) ==
  LET youtubeUrls == SelectSeq(loaded.lines, IsYoutubeLine)
      stored == StoreUploaded(uploaded, PlaylistName(loaded.name), youtubeUrls)
      p1 == [p EXCEPT !.videoPlaylist = UniqueUrls(youtubeUrls),
                      !.videoCurrentIndex = 0,
                      !.videoTitles = NoTitles]
  IN  IF Len(youtubeUrls) = 0
        THEN [p |-> p, uploaded |-> uploaded, cpi |-> cpi, fileInput |-> selected,
              outcome |-> "noUrls"]
        ELSE [p |-> updateVideoPlaylistDisplay(p1), uploaded |-> stored.uploaded,
              cpi |-> stored.index, fileInput |-> NoFile,
              outcome |-> IF p1.isUpdatingPlaylistDisplay THEN "skipped" ELSE "refreshed"]

ReaderLoad ==
  /\ readers # <<>>
  /\ \E r \in {readerOnload(PlaylistState, uploadedPlaylists, currentPlaylistIndex,
                            fileInput, Head(readers))} :
         /\ Len(r.p.refreshes) <= MaxRefreshes
         /\ Delivered("load", r.outcome)
         /\ SetPlaylistState(r.p)
         /\ uploadedPlaylists' = r.uploaded
         /\ currentPlaylistIndex' = r.cpi
         /\ fileInput' = r.fileInput
  /\ readers' = Tail(readers)
  /\ UNCHANGED isUploadingPlaylist
  /\ UNCHANGED animationVars

\* nextPlaylist() up to the await of the silent refresh
nextPlaylist(p, uploaded, cpi) ==
  LET valid == IF cpi < 0 \/ cpi >= Len(uploaded) THEN 0 ELSE cpi
      newIndex == (valid + 1) % Len(uploaded)
      p1 == [p EXCEPT !.videoPlaylist = uploaded[newIndex + 1].urls,
                      !.videoCurrentIndex = 0,
                      !.videoTitles = NoTitles]
  IN  IF Len(uploaded) = 0
        THEN [p |-> p, cpi |-> cpi, outcome |-> "noPlaylists"]
        ELSE [p |-> updateVideoPlaylistDisplaySilent(p1), cpi |-> newIndex,
              outcome |-> "refreshed"]

NextPlaylist ==
  /\ CanCall
  /\ \E r \in {nextPlaylist(PlaylistState, uploadedPlaylists, currentPlaylistIndex)} :
         /\ Len(r.p.refreshes) <= MaxRefreshes
         /\ Called("next", r.outcome)
         /\ SetPlaylistState(r.p)
         /\ currentPlaylistIndex' = r.cpi
  /\ UNCHANGED <<uploadedPlaylists, isUploadingPlaylist, fileInput, readers>>
  /\ UNCHANGED animationVars

\* videoPlayVideo(index): the playlist side of it
videoPlayVideo(p, index) ==
  IF index < 0 \/ index >= Len(p.videoPlaylist)
    THEN [p |-> p, outcome |-> "outOfRange"]
  ELSE IF extractYouTubeId(p.videoPlaylist[index + 1]) = NoId
    THEN [p |-> [p EXCEPT !.videoCurrentIndex = index], outcome |-> "invalidUrl"]
    ELSE [p |-> updateVideoPlaylistDisplaySilent([p EXCEPT !.videoCurrentIndex = index]),
          outcome |-> "refreshed"]

VideoPlayVideo ==
  /\ CanCall
  /\ \E index \in 0..MaxPlaylistLen :
       \E r \in {videoPlayVideo(PlaylistState, index)} :
         /\ Len(r.p.refreshes) <= MaxRefreshes
         /\ Called("play", r.outcome)
         /\ SetPlaylistState(r.p)
  /\ UNCHANGED <<uploadedPlaylists, currentPlaylistIndex, isUploadingPlaylist, fileInput,
                 readers>>
  /\ UNCHANGED animationVars

\* a caller runs updateVideoPlaylistDisplay()
UpdateDisplay ==
  /\ CanCall
  /\ \E p \in {updateVideoPlaylistDisplay(PlaylistState)} :
         /\ Len(p.refreshes) <= MaxRefreshes
         /\ Called("display", IF isUpdatingPlaylistDisplay THEN "skipped"
                              ELSE IF Len(videoPlaylist) = 0 THEN "empty" ELSE "refreshed")
         /\ SetPlaylistState(p)
  /\ UNCHANGED <<uploadedPlaylists, currentPlaylistIndex, isUploadingPlaylist, fileInput,
                 readers>>
  /\ UNCHANGED animationVars

\* a title fetch settles and the refresh that awaited it goes on
FetchDone ==
  /\ \E k \in 1..Len(refreshes) :
       \E title \in FetchedTitles(extractYouTubeId(refreshes[k].url)) :
         \E p \in {ResumeRefresh(PlaylistState, k, title)} :
           /\ SetPlaylistState(p)
           /\ Delivered("fetched", IF refreshes[k].flagged THEN "flagged" ELSE "silent")
  /\ UNCHANGED <<uploadedPlaylists, currentPlaylistIndex, isUploadingPlaylist, fileInput,
                 readers>>
  /\ UNCHANGED animationVars

NextPlaylistHandlers ==
  \/ SelectFile
  \/ UploadPlaylist
  \/ ReaderLoad
  \/ NextPlaylist
  \/ VideoPlayVideo
  \/ UpdateDisplay
  \/ FetchDone

SpecPlaylist == Init /\ [][NextPlaylistHandlers]_vars

(***************************************************************************)
(* Properties.                                                             *)
(***************************************************************************)
\* a step taken by the operator action op
OperatorStep(op) == nops' = nops + 1 /\ last'.op = op

\* a step that calls one frame callback
TickStep == Tick

Seconds(duration) == Div(Num(duration), Num(1000))

\* C1: after recordState('start') with the selector at D there are exactly two
\* keyframes, at times 0 and D/1000, inPoint = 0, outPoint = D/1000,
\* isRecording is true and isPlaying is false, whatever the state was before.
C1_BeginInvariant ==
  last.op = "start" =>
    /\ Len(data.keyframes) = 2
    /\ data.keyframes[1].time = Num(0)
    /\ data.keyframes[2].time = Seconds(durationSelect)
    /\ data.inPoint = Num(0)
    /\ data.outPoint = Seconds(durationSelect)
    /\ data.isRecording
    /\ ~data.isPlaying

\* Begin with D = 5000 pressed while a playback was running
C1_Witness ==
  /\ last.op = "start"
  /\ durationSelect = 5000
  /\ pending # <<>>
  /\ Len(data.keyframes) = 2

\* C2 as stated: after Begin the two keyframes hold value-equal snapshots
\* that are two separate objects.
C2_PointerDistinct ==
  last.op = "start" =>
    /\ data.keyframes[1].positions.val = data.keyframes[2].positions.val
    /\ data.keyframes[1].positions.obj # data.keyframes[2].positions.obj

\* C2 amended: after Begin both keyframes hold one and the same snapshot
\* object, captured once; that snapshot is a copy of the live ideas as they
\* were at Begin and does not follow later moves of the live ideas.
C2_SharedSnapshot ==
  /\ last.op = "start" =>
       data.keyframes[1].positions = data.keyframes[2].positions
  /\ scenario.phase = "begun" =>
       \A i \in 1..Len(data.keyframes) : data.keyframes[i].positions.val = scenario.P0

\* an idea was moved after Begin
C2_Witness ==
  /\ last.op = "move"
  /\ scenario.phase = "begun"
  /\ ideas # scenario.P0
  /\ Len(data.keyframes) = 2

\* the entity-wise arithmetic mean of two snapshots
MeanIdeas(p0, p1) ==
  [i \in 1..Len(p0) |->
     [f \in DOMAIN p0[i] |-> Div(Add(p0[i][f], p1[i][f]), Num(2))]]

\* C3: Begin with duration D at positions P0, moves to P1, End with the
\* scrubber at 1.0: outPoint = D/1000, the keyframe at D/1000 holds P1, the
\* keyframe at 0 still holds P0, and interpolating at progress 0.5 puts every
\* entity at the mean of P0 and P1.
C3_ExampleScenario ==
  scenario.phase = "ended" =>
    /\ data.outPoint = Seconds(durationSelect)
    /\ Len(data.keyframes) = 2
    /\ data.keyframes[1].time = Num(0)
    /\ data.keyframes[1].positions.val = scenario.P0
    /\ data.keyframes[2].time = Seconds(durationSelect)
    /\ data.keyframes[2].positions.val = ideas
    /\ interpolateBubblePositions(data, ideas, Rat(1, 2)) = MeanIdeas(scenario.P0, ideas)

\* the scenario of the specification: x 10 -> 50 gives 30 at progress 0.5
C3_Witness ==
  /\ scenario.phase = "ended"
  /\ last.op = "end"
  /\ scenario.P0[1].x = Num(10)
  /\ ideas[1].x = Num(50)
  /\ interpolateBubblePositions(data, ideas, Rat(1, 2))[1].x = Num(30)

\* the loaded document is the one saveAnimation wrote
LoadedSavedFile ==
  /\ last.op = "load"
  /\ last.alert = NoAlert
  /\ file # <<>>
  /\ globals.animationData = <<LoadedAnimationData(file[1])>>

\* C4: after saving an AnimationState with at least 2 keyframes and loading
\* the saved document, AnimationState has the saved inPoint, outPoint and
\* duration and keyframes of equal length with equal times and positions,
\* whatever it held just before the load.
C4_SaveLoadRoundTrip ==
  LoadedSavedFile =>
    /\ data.inPoint = file[1].inPoint
    /\ data.outPoint = file[1].outPoint
    /\ Num(data.duration) = file[1].duration
    /\ Len(data.keyframes) = Len(file[1].keyframes)
    /\ \A i \in 1..Len(data.keyframes) :
         i <= Len(file[1].keyframes) =>
           /\ data.keyframes[i].time = file[1].keyframes[i].time
           /\ data.keyframes[i].positions.val = file[1].keyframes[i].positions

\* C5: once playback has started, the first tick that runs when the elapsed
\* time is at or beyond playbackDuration sets isPlaying to false and schedules
\* no further tick.
C5_PlaybackTermination ==
  [][(TickStep /\ data.isPlaying
        /\ Ge(Num(now - playbackStartTime), playbackDuration))
       => (~data'.isPlaying /\ Len(pending') < Len(pending))]_vars

\* progress values at which currentTime is a keyframe time or the midpoint of
\* two adjacent keyframe times
BoundaryProgresses(d) ==
  {Div(d.keyframes[i].time, Seconds(d.duration)) : i \in 1..Len(d.keyframes)}
    \cup {Div(Div(Add(d.keyframes[i].time, d.keyframes[i + 1].time), Num(2)),
              Seconds(d.duration)) : i \in 1..(Len(d.keyframes) - 1)}

FiniteEntity(e) == \A f \in DOMAIN e : IsFinite(e[f])

C7_RejectInsufficientKeyframes ==
  [][((OperatorStep("play") \/ OperatorStep("save")) /\ Len(data.keyframes) < 2)
       => /\ last'.alert # NoAlert
          /\ UNCHANGED <<data, timelineMarkers, playbackStartTime, playbackDuration,
                         currentPlaybackTime, pending, ideas, slider, file>>]_vars

\* play and save were refused with one keyframe recorded
C7_Witness ==
  /\ last.op \in {"play", "save"}
  /\ last.alert # NoAlert
  /\ Len(data.keyframes) = 1
  /\ ~data.isPlaying

\* C8: recordState('end') while isRecording is false raises an alert and
\* changes neither AnimationState.data (duration included) nor the markers.
C8_EndWithoutRecording ==
  [][(OperatorStep("end") /\ ~data.isRecording)
       => /\ last'.alert # NoAlert
          /\ UNCHANGED <<data, timelineMarkers>>]_vars

\* C9: every keyframe appended by recordState('keyframe') has a time strictly
\* between 0 and outPoint in the state right after the call.
C9_KeyframeStrictlyInterior ==
  (last.op = "keyframe" /\ last.alert = NoAlert) =>
    LET added == data.keyframes[Len(data.keyframes)]
    IN  Lt(Num(0), added.time) /\ Lt(added.time, data.outPoint)

\* C10: a rejected recordState('keyframe') leaves AnimationState.data and the
\* markers as they were, also when it is called during playback.
C10_RejectedKeyframeNoMutation ==
  [][(OperatorStep("keyframe") /\ last'.alert # NoAlert)
       => UNCHANGED <<data, timelineMarkers>>]_vars

\* the values a successful load read from the document, defaults applied
LoadedValues == globals.animationData[1]

\* C11: after a successful load AnimationState.data holds the loaded
\* keyframes, the loaded (or default) inPoint, outPoint and duration, and
\* isRecording and isPlaying are false.
C11_LoadReplacesState ==
  (last.op = "load" /\ last.alert = NoAlert) =>
    /\ data.inPoint = LoadedValues.inPoint
    /\ data.outPoint = LoadedValues.outPoint
    /\ Num(data.duration) = LoadedValues.duration
    /\ Len(data.keyframes) = Len(LoadedValues.keyframes)
    /\ \A i \in 1..Len(data.keyframes) :
         i <= Len(LoadedValues.keyframes) =>
           /\ data.keyframes[i].time = LoadedValues.keyframes[i].time
           /\ data.keyframes[i].positions.val = LoadedValues.keyframes[i].positions
    /\ ~data.isRecording
    /\ ~data.isPlaying

\* C12: loading a document that is not JSON, has no keyframes field or has
\* fewer than 2 keyframes raises an alert and changes neither
\* AnimationState.data, nor the timeline markers, nor the duration selector.
C12_FailedLoadIntact ==
  [][\A doc \in Documents :
       (LoadDocument(doc)
          /\ (~doc.parses \/ ~doc.hasKeyframes \/ Len(doc.keyframes) < 2))
         => /\ last'.alert # NoAlert
            /\ UNCHANGED <<data, timelineMarkers, durationSelect, globals>>]_vars

\* a document with one keyframe was refused while a recording was open
C12_Witness ==
  /\ last.op = "load"
  /\ last.alert = "invalidFile"
  /\ data.isRecording
  /\ Len(data.keyframes) >= 2
  /\ timelineMarkers # <<>>

\* C13: whenever isPlaying is true, keyframes holds at least 2 keyframes.
C13_PlayingHasTwoKeyframes ==
  data.isPlaying => Len(data.keyframes) >= 2

\* a playback is running over three keyframes and a frame callback is pending
C13_Witness ==
  /\ data.isPlaying
  /\ Len(data.keyframes) = 3
  /\ pending # <<>>
  /\ now > playbackStartTime

\* C14: startPlayback with at least 2 keyframes is a toggle: while playing it
\* clears isPlaying, starts no tick loop and leaves playbackStartTime and
\* playbackDuration alone; while not playing it sets isPlaying, records the
\* start timestamp and sets playbackDuration = (outPoint - inPoint) * 1000.
C14_StartToggles ==
  [][(OperatorStep("play") /\ Len(data.keyframes) >= 2) =>
       IF data.isPlaying
         THEN /\ ~data'.isPlaying
              /\ pending' = pending
              /\ UNCHANGED <<playbackStartTime, playbackDuration>>
         ELSE /\ data'.isPlaying
              /\ playbackStartTime' = now
              /\ playbackDuration' = Mul(Sub(data.outPoint, data.inPoint), Num(1000))]_vars

\* C16: once a recorder operation has set the in and out points,
\* 0 <= inPoint < outPoint in every reachable state.
C16_InBeforeOut ==
  data.inPoint # Null =>
    (Le(Num(0), data.inPoint) /\ Lt(data.inPoint, data.outPoint))

\* C17: in every reachable state keyframes is ordered by ascending time.
C17_KeyframesAscending ==
  \A i \in 1..(Len(data.keyframes) - 1) :
    Le(data.keyframes[i].time, data.keyframes[i + 1].time)

\* the keyframes of the state that hold time t
KeyframesAt(t) == {i \in 1..Len(data.keyframes) : StrictEq(data.keyframes[i].time, t)}

\* C18: recordState('end') while recording sets outPoint to
\* progress * duration / 1000 and isRecording to false; it replaces the
\* snapshot of the keyframe whose time equals the outPoint held before the
\* call and appends a keyframe only when no keyframe has that time.
C18_EndUpdatesOldOutKeyframe ==
  [][(OperatorStep("end") /\ data.isRecording) =>
       /\ data'.outPoint = Mul(slider, Seconds(durationSelect))
       /\ ~data'.isRecording
       /\ IF KeyframesAt(data.outPoint) # {}
            THEN /\ Len(data'.keyframes) = Len(data.keyframes)
                 /\ \A i \in 1..Len(data.keyframes) :
                      /\ data'.keyframes[i].time = data.keyframes[i].time
                      /\ data'.keyframes[i].positions.val =
                           IF i = FindIndex(data.keyframes, data.outPoint)
                             THEN ideas
                             ELSE data.keyframes[i].positions.val
            ELSE /\ Len(data'.keyframes) = Len(data.keyframes) + 1
                 /\ data'.keyframes[Len(data'.keyframes)].positions.val = ideas
                 /\ SubSeq(data'.keyframes, 1, Len(data.keyframes)) = data.keyframes]_vars

\* C19: an accepted recordState('keyframe') made while isRecording is false
\* leaves exactly one keyframe, the one captured at the slider time, with
\* inPoint = 0, outPoint = duration / 1000 and isRecording = true.
C19_ImplicitBegin ==
  [][(OperatorStep("keyframe") /\ ~data.isRecording /\ last'.alert = NoAlert) =>
       /\ Len(data'.keyframes) = 1
       /\ data'.keyframes[1].time = Mul(slider, Seconds(data'.duration))
       /\ data'.keyframes[1].positions.val = ideas
       /\ data'.inPoint = Num(0)
       /\ data'.outPoint = Seconds(data'.duration)
       /\ data'.isRecording]_vars

\* a keyframe was added after a recording was completed (its out marker is
\* still shown): the single keyframe left is the new one
C19_Witness ==
  /\ last.op = "keyframe"
  /\ last.alert = NoAlert
  /\ Len(data.keyframes) = 1
  /\ data.isRecording
  /\ \E i \in 1..Len(timelineMarkers) : timelineMarkers[i].type = "out"

\* the keyframes whose snapshot the step has put there
NewSnapshots ==
  {i \in 1..Len(data'.keyframes) :
     \A j \in 1..Len(data.keyframes) :
       data.keyframes[j].positions # data'.keyframes[i].positions}

\* C15: every snapshot captureBubblePositions takes has the length of the
\* live list and, entity by entity, the same fields with the same values;
\* and a step that changes the live entities afterwards (a tick, a drag of
\* the slider, a move) changes no snapshot held by a keyframe.
C15_CaptureFidelity ==
  [][/\ \A i \in NewSnapshots :
          /\ Len(data'.keyframes[i].positions.val) = Len(ideas)
          /\ \A k \in 1..Len(ideas) :
               k <= Len(data'.keyframes[i].positions.val) =>
                 /\ DOMAIN data'.keyframes[i].positions.val[k] = DOMAIN ideas[k]
                 /\ \A f \in DOMAIN ideas[k] :
                      f \in DOMAIN data'.keyframes[i].positions.val[k] =>
                        data'.keyframes[i].positions.val[k][f] = ideas[k][f]
     /\ ideas' # ideas => data'.keyframes = data.keyframes]_vars

\* a list of two ideas was captured, bubble fields included, and the slider
\* then moved the live ideas away from the snapshot
C15_Witness ==
  /\ last.op = "input"
  /\ Len(ideas) = 2
  /\ Len(data.keyframes) >= 2
  /\ Len(data.keyframes[1].positions.val) = 2
  /\ data.keyframes[1].positions.val[2] = Bubble
  /\ data.keyframes[1].positions.val # ideas

\* C20: a frame callback that was pending when isPlaying was cleared exits,
\* when it runs, without writing the entities, the slider or the playback
\* time and without rescheduling itself, whatever happened in between.
C20_CooperativeCancellation ==
  [][(Tick /\ cancelled > 0) =>
       /\ UNCHANGED <<data, ideas, slider, currentPlaybackTime>>
       /\ pending' = Tail(pending)]_vars

\* C21: in every reachable state at most one frame callback of the player
\* is pending.
C21_SingleTickChain == Len(pending) <= 1

\* min(elapsed / playbackDuration, 1) for the playback that is running
PlaybackProgress == TickProgress(now - playbackStartTime, playbackDuration)

\* C22: every tick of a running playback computes
\* progress = min(elapsed / playbackDuration, 1), which lies in [0, 1], writes
\* it to the slider, never below the value the previous tick wrote, and
\* reschedules itself exactly when progress < 1.
C22_ProgressMonotone ==
  [][(Tick /\ data.isPlaying) =>
       /\ Le(Num(0), PlaybackProgress) /\ Le(PlaybackProgress, Num(1))
       /\ slider' = PlaybackProgress
       /\ last.op = "play" => Ge(slider', slider)
       /\ Lt(PlaybackProgress, Num(1)) <=> pending' = Append(Tail(pending), Head(pending))]_vars

\* currentTime for a progress value, as interpolateBubblePositions computes it
CurrentTime(progress) == Mul(progress, Seconds(data.duration))

\* the adjacent pairs, by index of their first keyframe, whose times enclose t
Enclosing(t) ==
  {i \in 1..(Len(data.keyframes) - 1) :
     /\ Lt(data.keyframes[i].time, t) \/ data.keyframes[i].time = t
     /\ Lt(t, data.keyframes[i + 1].time) \/ data.keyframes[i + 1].time = t}

\* C23: with at least 2 keyframes, interpolation at currentTime works between
\* the first adjacent pair in storage order whose times enclose currentTime,
\* and between the first and the last keyframe when no adjacent pair does.
C23_PairSelection ==
  Len(data.keyframes) >= 2 =>
    \A progress \in BoundaryProgresses(data) \cup Progresses :
      \A t \in {CurrentTime(progress)} :
        \A pair \in {SelectKeyframes(data.keyframes, t)} :
          /\ Enclosing(t) = {} =>
               pair = <<data.keyframes[1], data.keyframes[Len(data.keyframes)]>>
          /\ \A i \in Enclosing(t) :
               (\A j \in Enclosing(t) : i <= j) =>
                 pair = <<data.keyframes[i], data.keyframes[i + 1]>>
          /\ interpolateBubblePositions(data, ideas, progress) =
               InterpolateAt(ideas, pair, t)

\* keyframes for which one slider position has an enclosing pair and another
\* has none
C23_Witness ==
  /\ Len(data.keyframes) >= 2
  /\ \E progress \in Progresses : Enclosing(CurrentTime(progress)) = {}
  /\ \E progress \in Progresses : Enclosing(CurrentTime(progress)) # {}
  /\ data.keyframes[1].positions.val # data.keyframes[2].positions.val

\* C24: after Begin, an accepted recordState('keyframe') at the slider time t
\* (duration selector unchanged) makes interpolation at currentTime = t put
\* every entity on the pose that keyframe captured.
C24_AddedKeyframeTakesEffect ==
  [][(OperatorStep("keyframe") /\ scenario.phase = "begun" /\ last'.alert = NoAlert) =>
       interpolateBubblePositions(data', ideas', slider') =
         data'.keyframes[Len(data'.keyframes)].positions.val]_vars

\* C25: after Begin, moves of the entities and End with the slider at any
\* progress in (0, 1], a playback that has run to completion leaves every
\* entity on the pose End captured.
C25_EndsOnRecordedPose ==
  (scenario.phase = "played" /\ ~data.isPlaying /\ pending = <<>>) =>
    ideas = scenario.P0

\* the segment fraction interpolation uses at a progress value
SegmentFraction(progress) ==
  segmentProgress(SelectKeyframes(data.keyframes, CurrentTime(progress)),
                  CurrentTime(progress))

\* C26: with at least 2 keyframes the segment fraction used at any progress
\* in [0, 1] lies in [0, 1]: interpolation never extrapolates.
C26_NoExtrapolation ==
  Len(data.keyframes) >= 2 =>
    \A progress \in Progresses :
      \A f \in {SegmentFraction(progress)} : Le(Num(0), f) /\ Le(f, Num(1))

\* C27: with at least 2 keyframes the two keyframes selected at any progress
\* in [0, 1] have different times, and interpolation writes finite values
\* only.
C27_NoDivisionByZero ==
  Len(data.keyframes) >= 2 =>
    \A progress \in Progresses :
      /\ \A pair \in {SelectKeyframes(data.keyframes, CurrentTime(progress))} :
           pair[1].time # pair[2].time
      /\ \A written \in {interpolateBubblePositions(data, ideas, progress)} :
           \A i \in 1..Len(written) : FiniteEntity(written[i])

\* C28: stopPlayback sets isPlaying to false and changes nothing else.
C28_StopOnlyClearsFlag ==
  [][OperatorStep("stop") =>
       /\ data' = [data EXCEPT !.isPlaying = FALSE]
       /\ UNCHANGED <<timelineMarkers, playbackStartTime, playbackDuration,
                      currentPlaybackTime, slider, ideas, pending>>]_vars

\* a running playback of an open recording was stopped; its frame callback
\* is still pending
C28_Witness ==
  /\ last.op = "stop"
  /\ ~data.isPlaying
  /\ data.isRecording
  /\ Len(data.keyframes) >= 2
  /\ pending # <<>>

\* C29: no call of interpolateBubblePositions, from a tick, from the start of
\* a playback or from the slider, changes the stored keyframes.
C29_PlayerKeepsKeyframes ==
  [][(Tick \/ OperatorStep("input") \/ (OperatorStep("play") /\ last'.alert = NoAlert))
       => data'.keyframes = data.keyframes]_vars

\* a playback has run to completion and moved the live entities off the
\* first snapshot
C29_Witness ==
  /\ last.op = "play"
  /\ ~data.isPlaying
  /\ now > playbackStartTime
  /\ Len(data.keyframes) >= 2
  /\ slider = Num(1)
  /\ ideas # data.keyframes[1].positions.val

\* the fields interpolation may write
InterpolatedFields == {"x", "y", "vx", "vy", "radius"}

\* every live entity keeps its other fields, and a live entity whose index is
\* beyond either snapshot selected at this progress is left as it was
LeavesUntouched(progress) ==
  /\ Len(ideas') = Len(ideas)
  /\ \A i \in 1..Len(ideas) :
       /\ DOMAIN ideas'[i] \ InterpolatedFields = DOMAIN ideas[i] \ InterpolatedFields
       /\ \A f \in DOMAIN ideas[i] \ InterpolatedFields : ideas'[i][f] = ideas[i][f]
  /\ Len(data.keyframes) >= 2 =>
       \A pair \in {SelectKeyframes(data.keyframes, CurrentTime(progress))} :
         \A i \in 1..Len(ideas) :
           (i > Len(pair[1].positions.val) \/ i > Len(pair[2].positions.val))
             => ideas'[i] = ideas[i]

\* C30: an interpolation step, from a tick, from the start of a playback or
\* from the slider, leaves untouched every live entity whose index is out of
\* range of either selected snapshot and changes no field other than x, y,
\* vx, vy and radius.
C30_OnlyInterpolatedFields ==
  [][/\ (Tick /\ data.isPlaying) =>
          LeavesUntouched(TickProgress(now - playbackStartTime, Head(pending).duration))
     /\ (OperatorStep("play") /\ data'.isPlaying) =>
          LeavesUntouched(TickProgress(0, PlaybackDuration(data)))
     /\ OperatorStep("input") => LeavesUntouched(slider')]_vars

\* the slider moved a renamed idea to the middle of its two snapshots and
\* left alone a bubble that was added after them
C30_Witness ==
  /\ last.op = "input"
  /\ Len(data.keyframes) >= 2
  /\ \A k \in 1..Len(data.keyframes) :
       data.keyframes[k].positions.val \in {<<Titled("a", p)>> : p \in Positions}
  /\ ideas = <<Titled("b", <<30, 40>>), Bubble>>

\* the optional attributes of an entity
OptionalFields == {"vx", "vy", "radius"}

\* an optional attribute that either snapshot selected at this progress lacks
\* is left as the live entity had it
KeepsUndefinedOptionals(progress) ==
  Len(data.keyframes) >= 2 =>
    \A pair \in {SelectKeyframes(data.keyframes, CurrentTime(progress))} :
      \A i \in 1..Len(ideas) :
        (i <= Len(pair[1].positions.val) /\ i <= Len(pair[2].positions.val)) =>
          \A f \in OptionalFields :
            ~(Defined(pair[1].positions.val[i], f) /\ Defined(pair[2].positions.val[i], f))
              => /\ Defined(ideas'[i], f) <=> Defined(ideas[i], f)
                 /\ Defined(ideas[i], f) => ideas'[i][f] = ideas[i][f]

\* C31: an interpolation step writes vx only if both selected snapshots
\* define vx, vy only if both define vy and radius only if both define
\* radius; an attribute missing from either snapshot keeps its live value.
C31_OptionalAttributes ==
  [][/\ (Tick /\ data.isPlaying) =>
          KeepsUndefinedOptionals(TickProgress(now - playbackStartTime, Head(pending).duration))
     /\ (OperatorStep("play") /\ data'.isPlaying) =>
          KeepsUndefinedOptionals(TickProgress(0, PlaybackDuration(data)))
     /\ OperatorStep("input") => KeepsUndefinedOptionals(slider')]_vars

\* C32: a slider input at progress p while isPlaying is false and at least 2
\* keyframes exist writes the entity positions a tick at progress p writes and
\* leaves AnimationState.data (isPlaying, keyframes, inPoint, outPoint) as it
\* was; a slider input while isPlaying is true changes neither the entity
\* positions nor AnimationState.
C32_ManualScrubbing ==
  [][OperatorStep("input") =>
       /\ data' = data
       /\ (~data.isPlaying /\ Len(data.keyframes) >= 2) =>
            ideas' = AnimateAt(Closure(data, PlaybackDuration(data)), data, ideas, slider').ideas
       /\ data.isPlaying =>
            UNCHANGED <<ideas, timelineMarkers, playbackStartTime, playbackDuration,
                        currentPlaybackTime>>]_vars

\* the slider was moved during a playback to a place where interpolation
\* would have moved the entities
C32_Witness ==
  /\ last.op = "input"
  /\ data.isPlaying
  /\ Len(data.keyframes) >= 2
  /\ interpolateBubblePositions(data, ideas, slider) # ideas

\* C33: after every Add keyframe call, accepted or rejected, isPlaying is
\* false, and until another operation follows no frame callback writes the
\* entity positions.
C33_KeyframeStopsPlayback ==
  [][/\ OperatorStep("keyframe") => ~data'.isPlaying
     /\ (Tick /\ last.op = "keyframe") => UNCHANGED <<ideas, slider, data>>]_vars

\* Add keyframe was called while the frame callback of a playback of a
\* non-empty range was pending
C33_Witness ==
  /\ last.op = "keyframe"
  /\ ~data.isPlaying
  /\ pending # <<>>
  /\ Lt(Num(0), playbackDuration)
  /\ now < playbackStartTime + ClockStep

\* C34: whenever there are at least 2 keyframes the first keyframe's time is
\* inPoint and the last keyframe's time is outPoint.
C34_EndpointsAreInOut ==
  Len(data.keyframes) >= 2 =>
    /\ data.keyframes[1].time = data.inPoint
    /\ data.keyframes[Len(data.keyframes)].time = data.outPoint

\* the indexes of the markers of one type
MarkersOf(markers, type) == {i \in 1..Len(markers) : markers[i].type = type}

\* the indexes of the keyframes whose time is strictly between 0 and outPoint
InteriorKeyframes(d) ==
  {k \in 1..Len(d.keyframes) :
     Lt(Num(0), d.keyframes[k].time) /\ Lt(d.keyframes[k].time, d.outPoint)}

\* the marker list holds one in marker at 0, one out marker at outPoint and
\* one keyframe marker for each interior keyframe, each at its position
MarkersMirror(markers, d) ==
  /\ \A i \in 1..Len(markers) :
       markers[i].position = MarkerPosition(markers[i].time, d.duration)
  /\ \E i \in 1..Len(markers) : MarkersOf(markers, "in") = {i} /\ markers[i].time = Num(0)
  /\ \E i \in 1..Len(markers) : MarkersOf(markers, "out") = {i} /\ markers[i].time = d.outPoint
  /\ \E g \in [InteriorKeyframes(d) -> MarkersOf(markers, "keyframe")] :
       /\ \A k \in InteriorKeyframes(d) : markers[g[k]].time = d.keyframes[k].time
       /\ \A j, k \in InteriorKeyframes(d) : g[j] = g[k] => j = k
       /\ \A i \in MarkersOf(markers, "keyframe") : \E k \in InteriorKeyframes(d) : g[k] = i

\* C35: after an accepted End, and after a change of the slider that scrubs
\* to the end of an open recording, the markers hold exactly one in marker at
\* 0, one out marker at outPoint and one keyframe marker for each keyframe
\* strictly between 0 and outPoint, each at time / (duration/1000) * 100.
C35_MarkersMirrorState ==
  [][(\/ OperatorStep("end") /\ last'.alert = NoAlert
      \/ OperatorStep("change") /\ ~data.isPlaying /\ data.isRecording
           /\ Ge(slider, Rat(95, 100)))
       => MarkersMirror(timelineMarkers', data')]_vars

\* the waiting display refreshes that hold the guard
FlaggedRefreshes(waiting) == {k \in 1..Len(waiting) : waiting[k].flagged}

\* C36: at most one invocation of updateVideoPlaylistDisplay is between
\* setting and clearing isUpdatingPlaylistDisplay, the flag is set exactly
\* while such an invocation waits for a title, and a call made while the flag
\* is set touches neither the playlist container nor the waiting refreshes.
C36_DisplayGuard ==
  [][/\ Cardinality(FlaggedRefreshes(refreshes')) <= 1
     /\ isUpdatingPlaylistDisplay' <=> FlaggedRefreshes(refreshes') # {}
     /\ (isUpdatingPlaylistDisplay /\ lastCall'.op = "display") =>
          UNCHANGED <<playlistContainer, refreshes, isUpdatingPlaylistDisplay,
                      videoTitles>>
     /\ (isUpdatingPlaylistDisplay /\ lastCall'.op = "load") =>
          UNCHANGED <<playlistContainer, refreshes, isUpdatingPlaylistDisplay>>]_vars

\* a call of updateVideoPlaylistDisplay was skipped while an earlier
\* invocation was waiting for a title with part of the list displayed
C36_Witness ==
  /\ lastCall = [op |-> "display", outcome |-> "skipped"]
  /\ isUpdatingPlaylistDisplay
  /\ FlaggedRefreshes(refreshes) # {}
  /\ playlistContainer # <<>>

\* the urls of the displayed items, in display order
DisplayedUrls == [i \in 1..Len(playlistContainer) |-> playlistContainer[i].url]

\* C37: once no display refresh is in flight the playlist container holds one
\* item per entry of videoPlaylist, in playlist order.
C37_DisplayConsistent ==
  (refreshes = <<>> /\ readers = <<>>) => DisplayedUrls = videoPlaylist

\* C38: every call of uploadPlaylist leaves isUploadingPlaylist false when it
\* returns, so a call is skipped only while another is running.
C38_UploadGuardReleased ==
  [][lastCall'.op = "upload" /\ ncalls' = ncalls + 1 => ~isUploadingPlaylist']_vars

=============================================================================
